---- MODULE Spec2Model ----
(***************************************************************************)
(* mlpack::kernel::ExponentialKernel                                       *)
(* (src/mlpack/core/kernels/exponential_kernel.hpp).                       *)
(*                                                                         *)
(* The class holds two doubles, bandwidth and gamma, set by a constructor  *)
(* and read by the const member functions Evaluate(a, b), Evaluate(t),     *)
(* Bandwidth() and Gamma().  Everything the class computes is IEEE-754     *)
(* binary floating-point arithmetic, so the model carries a binary         *)
(* floating-point format with round-to-nearest-even, gradual underflow,    *)
(* overflow to infinity and NaN.  The format is `double` scaled down to    *)
(* MantBits bits of significand so that TLC can enumerate every value.     *)
(***************************************************************************)
EXTENDS Integers, Sequences, FiniteSets, TLC

(***************************************************************************)
(* The floating-point format.                                              *)
(*                                                                         *)
(* A finite value is held as the integer n with value n / 2^FracBits       *)
(* (n counts units of the smallest subnormal).  Representable magnitudes   *)
(* are 0 .. 2^MantBits - 1 (zero, the subnormals and the first normal      *)
(* binade) and m * 2^e for a MantBits-bit significand m and e in           *)
(* 1..MaxExp.  +0 and -0 are one value: the class never divides by a       *)
(* run-time value nor inspects a sign bit, and IEEE == does not tell the   *)
(* two zeros apart.                                                        *)
(***************************************************************************)
MantBits == 3
FracBits == 5
MaxExp == 7

Scale == 2^FracBits
\* +infinity: the first magnitude beyond the largest finite one, so that
\* ordinary integer order is the order of the extended reals.
Inf == 2^(MantBits + MaxExp)
NaN == 2 * Inf

Grid ==
    (0 .. (2^MantBits - 1))
        \cup { m * 2^e : m \in 2^(MantBits - 1) .. (2^MantBits - 1), e \in 1 .. MaxExp }

Floats == Grid \cup { -g : g \in Grid } \cup { Inf, -Inf, NaN }

IsNaN(x) == x = NaN
IsFinite(x) == x # NaN /\ -Inf < x /\ x < Inf
Mag(x) == IF x < 0 THEN -x ELSE x
\* Ordered comparisons are false when an operand is NaN.
FLt(x, y) == x # NaN /\ y # NaN /\ x < y
FLe(x, y) == x # NaN /\ y # NaN /\ x <= y

\* Spacing of the representable magnitudes at g.
RECURSIVE Ulp(_)
Ulp(g) == IF g < 2^MantBits THEN 1 ELSE 2 * Ulp(g \div 2)

EvenMant(g) == (g \div Ulp(g)) % 2 = 0

\* num / den (num >= 0, den > 0, in units of 2^-FracBits) rounded to the
\* nearest representable magnitude, ties to the even significand; a value at
\* or beyond the midpoint above the largest finite magnitude becomes Inf.
RoundMag(num, den) ==
    LET fl == num \div den IN
    IF fl >= Inf THEN Inf
    ELSE LET lo == fl - (fl % Ulp(fl))
             hi == lo + Ulp(lo)
         IN  IF lo * den = num THEN lo
             ELSE IF 2 * num < (lo + hi) * den THEN lo
             ELSE IF 2 * num > (lo + hi) * den THEN hi
             ELSE IF EvenMant(lo) THEN lo ELSE hi

FNeg(x) == IF x = NaN THEN NaN ELSE -x

SignOf(x, y) == IF (x < 0) = (y < 0) THEN 1 ELSE -1

\* x * y
FMul(x, y) ==
    IF x = NaN \/ y = NaN THEN NaN
    ELSE IF (Mag(x) = Inf /\ y = 0) \/ (x = 0 /\ Mag(y) = Inf) THEN NaN
    ELSE IF Mag(x) = Inf \/ Mag(y) = Inf THEN SignOf(x, y) * Inf
    ELSE SignOf(x, y) * RoundMag(Mag(x) * Mag(y), Scale)

\* x + y
FAdd(x, y) ==
    IF x = NaN \/ y = NaN THEN NaN
    ELSE IF Mag(x) = Inf /\ Mag(y) = Inf THEN (IF x = y THEN x ELSE NaN)
    ELSE IF Mag(x) = Inf THEN x
    ELSE IF Mag(y) = Inf THEN y
    ELSE IF x + y < 0 THEN -RoundMag(-(x + y), 1) ELSE RoundMag(x + y, 1)

\* x - y
FSub(x, y) == FAdd(x, FNeg(y))

\* x / y (a zero divisor is +0)
FDiv(x, y) ==
    IF x = NaN \/ y = NaN THEN NaN
    ELSE IF Mag(x) = Inf /\ Mag(y) = Inf THEN NaN
    ELSE IF Mag(x) = Inf THEN SignOf(x, y) * Inf
    ELSE IF Mag(y) = Inf THEN 0
    ELSE IF y = 0 THEN (IF x = 0 THEN NaN ELSE IF x < 0 THEN -Inf ELSE Inf)
    ELSE SignOf(x, y) * RoundMag(Mag(x) * Scale, Mag(y))

\* Largest integer r in lo .. hi with r * r <= n (lo * lo <= n < (hi + 1)^2).
RECURSIVE ISqrtIn(_, _, _)
ISqrtIn(n, lo, hi) ==
    IF lo = hi THEN lo
    ELSE LET mid == (lo + hi + 1) \div 2
         IN  IF mid * mid <= n THEN ISqrtIn(n, mid, hi) ELSE ISqrtIn(n, lo, mid - 1)

\* Largest integer r with r * r <= n.
ISqrt(n) == ISqrtIn(n, 0, Inf)

\* sqrt(x), correctly rounded
FSqrt(x) ==
    IF x = NaN \/ x < 0 THEN NaN
    ELSE IF x = Inf THEN Inf
    ELSE LET n == x * Scale
             fl == ISqrt(n)
             lo == fl - (fl % Ulp(fl))
             hi == lo + Ulp(lo)
         IN  IF lo * lo = n THEN lo
             ELSE IF (lo + hi) * (lo + hi) < 4 * n THEN hi
             ELSE IF (lo + hi) * (lo + hi) > 4 * n THEN lo
             ELSE IF EvenMant(lo) THEN lo ELSE hi

\* pow(x, -1.0) in place of pow(x, -2.0): the sign of x survives.
PowM1(x) ==
    IF x = NaN THEN NaN
    ELSE IF x = 0 THEN Inf
    ELSE IF Mag(x) = Inf THEN 0
    ELSE (IF x < 0 THEN -1 ELSE 1) * RoundMag(Scale * Scale, Mag(x))

\* pow(x, -2.0): 1 / x^2 rounded once; pow(+-0, -2.0) = +inf,
\* pow(+-inf, -2.0) = +0.
PowM2(x) ==
    IF x = NaN THEN NaN
    ELSE IF x = 0 THEN Inf
    ELSE IF Mag(x) = Inf THEN 0
    ELSE RoundMag(Scale * Scale * Scale, x * x)

\* exp on the finite values: ExpPos[i] is exp(g) and ExpNeg[i] is exp(-g)
\* for the i-th smallest magnitude g of Grid, each correctly rounded.
ExpPos ==
    << 32, 32, 32, 32, 40, 40, 40, 40, 40, 40, 48, 48, 56, 56, 64, 80, 80, 112,
       128, 192, 224, 384, 640, 1024, 1024, 1024, 1024, 1024, 1024, 1024, 1024,
       1024, 1024, 1024, 1024, 1024 >>
ExpNeg ==
    << 32, 32, 32, 28, 28, 28, 28, 24, 24, 24, 20, 20, 20, 16, 16, 14, 12, 10,
       7, 6, 4, 3, 2, 1, 1, 0, 0, 0, 0, 0, 0, 0, 0, 0, 0, 0 >>

Rank(g) == Cardinality({ h \in Grid : h <= g })

\* exp(x)
Exp(x) ==
    IF x = NaN THEN NaN
    ELSE IF x = Inf THEN Inf
    ELSE IF x = -Inf THEN 0
    ELSE IF x < 0 THEN ExpNeg[Rank(-x)] ELSE ExpPos[Rank(x)]

One == Scale
Two == 2 * Scale
Half == Scale \div 2

(***************************************************************************)
(* Inputs.                                                                 *)
(***************************************************************************)
MaxDim == 2
NumThreads == 2

\* Components of the argument vectors.
VecVals == { FNeg(One), 0, Two }
Vectors(d) == [1 .. d -> VecVals]
Dims == 1 .. MaxDim

Threads == 1 .. NumThreads
\* The caller of the single-caller specification.
MainThread == CHOOSE t \in Threads : \A u \in Threads : t <= u

\* Inputs of the concurrent specification.
ConcBandwidths == { One, Two, 0 }
ConcVectors == { <<0, 0>>, <<Two, 0>> }
ConcScalars == { 0, Two }

(***************************************************************************)
(* metric::SquaredEuclideanDistance::Evaluate(a, b): the sum of the        *)
(* squared per-coordinate differences of two equal-length vectors.         *)
(***************************************************************************)
RECURSIVE SumSquaredDiff(_, _, _)
SumSquaredDiff(a, b, i) ==
    IF i = 0 THEN 0
    ELSE FAdd(SumSquaredDiff(a, b, i - 1),
              FMul(FSub(a[i], b[i]), FSub(a[i], b[i])))

SquaredEuclideanDistance(a, b) == SumSquaredDiff(a, b, Len(a))

(***************************************************************************)
(* class ExponentialKernel                                                 *)
(***************************************************************************)
VARIABLES
    bandwidth,  \* double bandwidth
    gamma,      \* double gamma
    ctor,       \* the constructor that built the instance
    pc,         \* pc[t]: where thread t is in its call
    call,       \* call[t]: the member function thread t called, and its arguments
    reg,        \* reg[t]: the member thread t has loaded
    ret         \* ret[t]: the value returned to thread t

vars == <<bandwidth, gamma, ctor, pc, call, reg, ret>>

\* gamma without the minus sign: 0.5 * pow(bandwidth, -2.0)
GammaOfPositive(b) == FMul(Half, PowM2(b))

\* gamma without the factor one half: -pow(bandwidth, -2.0)
GammaOfNoHalf(b) == FNeg(PowM2(b))

\* gamma(-0.5 * pow(bandwidth, -2.0))
GammaOf(b) == FMul(FNeg(Half), PowM2(b))

\* ExponentialKernel() : bandwidth(1.0), gamma(-0.5)
DefaultKernel == [bandwidth |-> One, gamma |-> FNeg(Half)]

\* ExponentialKernel(double bandwidth)
BandwidthKernel(b) == [bandwidth |-> b, gamma |-> GammaOf(b)]

\* Evaluate on the squared distance (the square root left out).
EvaluateSquared(g, a, b) == Exp(FMul(g, SquaredEuclideanDistance(a, b)))

\* Evaluate on the norm of a alone (b left out of the distance).
EvaluateNormA(g, a, b) ==
    Exp(FMul(g, FSqrt(SquaredEuclideanDistance(a, [i \in 1 .. Len(a) |-> 0]))))

\* Evaluate with gamma added to the distance instead of multiplying it.
EvaluateSum(g, a, b) == Exp(FAdd(g, FSqrt(SquaredEuclideanDistance(a, b))))

\* exp(gamma * sqrt(metric::SquaredEuclideanDistance::Evaluate(a, b)))
Evaluate(g, a, b) == Exp(FMul(g, FSqrt(SquaredEuclideanDistance(a, b))))

\* Evaluate(t) with gamma added to t instead of multiplying it.
EvaluateTSum(g, t) == Exp(FAdd(g, t))

\* exp(gamma * t)
EvaluateT(g, t) == Exp(FMul(g, t))

NoCall == [op |-> "none", a |-> <<>>, b |-> <<>>, t |-> 0]

InitKernel(k, c) ==
    /\ bandwidth = k.bandwidth
    /\ gamma = k.gamma
    /\ ctor = c
    /\ pc = [t \in Threads |-> "idle"]
    /\ call = [t \in Threads |-> NoCall]
    /\ reg = [t \in Threads |-> 0]
    /\ ret = [t \in Threads |-> 0]

Init ==
    \/ InitKernel(DefaultKernel, "default")
    \/ \E b \in Floats : InitKernel(BandwidthKernel(b), "bandwidth")

InitConc ==
    \/ InitKernel(DefaultKernel, "default")
    \/ \E b \in ConcBandwidths : InitKernel(BandwidthKernel(b), "bandwidth")

\* A thread calls Evaluate(a, b).
CallEvaluate(th, a, b) ==
    /\ pc[th] = "idle"
    /\ pc' = [pc EXCEPT ![th] = "called"]
    /\ call' = [call EXCEPT ![th] = [op |-> "Evaluate", a |-> a, b |-> b, t |-> 0]]
    /\ UNCHANGED <<bandwidth, gamma, ctor, reg, ret>>

\* A thread calls Evaluate(t).
CallEvaluateT(th, t) ==
    /\ pc[th] = "idle"
    /\ pc' = [pc EXCEPT ![th] = "called"]
    /\ call' = [call EXCEPT ![th] = [op |-> "EvaluateT", a |-> <<>>, b |-> <<>>, t |-> t]]
    /\ UNCHANGED <<bandwidth, gamma, ctor, reg, ret>>

\* A thread calls Bandwidth().
CallBandwidth(th) ==
    /\ pc[th] = "idle"
    /\ pc' = [pc EXCEPT ![th] = "called"]
    /\ call' = [call EXCEPT ![th] = [op |-> "Bandwidth", a |-> <<>>, b |-> <<>>, t |-> 0]]
    /\ UNCHANGED <<bandwidth, gamma, ctor, reg, ret>>

\* A thread calls Gamma().
CallGamma(th) ==
    /\ pc[th] = "idle"
    /\ pc' = [pc EXCEPT ![th] = "called"]
    /\ call' = [call EXCEPT ![th] = [op |-> "Gamma", a |-> <<>>, b |-> <<>>, t |-> 0]]
    /\ UNCHANGED <<bandwidth, gamma, ctor, reg, ret>>

\* Load that leaves the product of the member and the scalar argument in gamma.
LoadScaling(th) ==
    /\ pc[th] = "called"
    /\ reg' = [reg EXCEPT ![th] = IF call[th].op = "Bandwidth" THEN bandwidth ELSE gamma]
    /\ gamma' = IF call[th].op = "EvaluateT" THEN FMul(gamma, call[th].t) ELSE gamma
    /\ pc' = [pc EXCEPT ![th] = "loaded"]
    /\ UNCHANGED <<bandwidth, ctor, call, ret>>

\* The call reads the member it uses: the one access to the shared instance.
Load(th) ==
    /\ pc[th] = "called"
    /\ reg' = [reg EXCEPT ![th] = IF call[th].op = "Bandwidth" THEN bandwidth ELSE gamma]
    /\ pc' = [pc EXCEPT ![th] = "loaded"]
    /\ UNCHANGED <<bandwidth, gamma, ctor, call, ret>>

\* The value a call returns from the member it loaded.
Result(c, m) ==
    CASE c.op = "Evaluate" -> Evaluate(m, c.a, c.b)
      [] c.op = "EvaluateT" -> EvaluateT(m, c.t)
      [] OTHER -> m

\* Return that also keeps its result in the gamma member.
ReturnCaching(th) ==
    /\ pc[th] = "loaded"
    /\ ret' = [ret EXCEPT ![th] = Result(call[th], reg[th])]
    /\ gamma' = Result(call[th], reg[th])
    /\ pc' = [pc EXCEPT ![th] = "done"]
    /\ UNCHANGED <<bandwidth, ctor, call, reg>>

\* The call computes its result and returns.
Return(th) ==
    /\ pc[th] = "loaded"
    /\ ret' = [ret EXCEPT ![th] = Result(call[th], reg[th])]
    /\ pc' = [pc EXCEPT ![th] = "done"]
    /\ UNCHANGED <<bandwidth, gamma, ctor, call, reg>>

\* The caller has consumed the result and may call again.
Finish(th) ==
    /\ pc[th] = "done"
    /\ pc' = [pc EXCEPT ![th] = "idle"]
    /\ call' = [call EXCEPT ![th] = NoCall]
    /\ reg' = [reg EXCEPT ![th] = 0]
    /\ ret' = [ret EXCEPT ![th] = 0]
    /\ UNCHANGED <<bandwidth, gamma, ctor>>

\* One caller, every input.
Next ==
    \/ \E d \in Dims : \E a, b \in Vectors(d) : CallEvaluate(MainThread, a, b)
    \/ \E t \in Floats : CallEvaluateT(MainThread, t)
    \/ CallBandwidth(MainThread)
    \/ CallGamma(MainThread)
    \/ Load(MainThread)
    \/ Return(MainThread)
    \/ Finish(MainThread)

Spec == Init /\ [][Next]_vars

\* Several threads share the instance.
NextConc ==
    \E th \in Threads :
        \/ \E a, b \in ConcVectors : CallEvaluate(th, a, b)
        \/ \E t \in ConcScalars : CallEvaluateT(th, t)
        \/ CallBandwidth(th)
        \/ CallGamma(th)
        \/ Load(th)
        \/ Return(th)
        \/ Finish(th)

SpecConc == InitConc /\ [][NextConc]_vars

(***************************************************************************)
(* Properties.                                                             *)
(***************************************************************************)
Done(th, op) == pc[th] = "done" /\ call[th].op = op

\* The distance Evaluate(a, b) takes the exponential of.
Distance(a, b) == FSqrt(SquaredEuclideanDistance(a, b))

\* -1 / (2 * b^2) as the double expression evaluates it.
GammaFormula(b) == FNeg(FDiv(One, FMul(Two, FMul(b, b))))

\* m is the exact quotient num / den rounded to a representable magnitude
\* next to it (to the quotient itself when that is representable).
NextTo(m, num, den) ==
    \A h \in Grid \cup {Inf} :
        /\ h * den <= num => h <= m
        /\ (h * den >= num /\ h # Inf) => m <= h

\* C1 (as stated): after construction by either constructor, and after any
\* later calls, Gamma() == -1 / (2 * Bandwidth()^2); the default constructor
\* gives Bandwidth() = 1.0 and Gamma() = -0.5.
C1_GammaEqualsFormula ==
    /\ gamma = GammaFormula(bandwidth)
    /\ ctor = "default" => bandwidth = One /\ gamma = FNeg(Half)

\* C1 (amended): Gamma() is -1 / (2 * Bandwidth()^2) up to rounding: when
\* 1 / Bandwidth()^2 does not overflow it is a representable value next to
\* the exact quotient (the quotient itself when that is representable), and
\* when 1 / Bandwidth()^2 overflows (bandwidth 0 included) it is -inf; it is
\* 0 for an infinite bandwidth and NaN for a NaN bandwidth; the default
\* constructor gives exactly 1.0 and -0.5; and this stays so after any later
\* calls.
C1_GammaWithinRounding ==
    /\ ctor = "default" => bandwidth = One /\ gamma = FNeg(Half)
    /\ bandwidth = NaN => gamma = NaN
    /\ bandwidth = 0 => gamma = -Inf
    /\ Mag(bandwidth) = Inf => gamma = 0
    /\ (IsFinite(bandwidth) /\ PowM2(bandwidth) = Inf) => gamma = -Inf
    /\ (IsFinite(bandwidth) /\ PowM2(bandwidth) # Inf) =>
          /\ gamma # NaN
          /\ gamma <= 0
          /\ NextTo(-gamma, Scale * Scale * Scale, 2 * bandwidth * bandwidth)

\* C1 witness: an instance built from bandwidth 3.0, whose exact gamma -1/18
\* is not representable, seen after a completed Evaluate(a, b) call.
C1_Witness ==
    /\ ctor = "bandwidth"
    /\ bandwidth = 3 * One
    /\ IsFinite(gamma)
    /\ gamma * 18 # -One
    /\ Done(MainThread, "Evaluate")

\* C2: Evaluate(a, b) returns what Evaluate(t) returns on the same instance
\* for t = sqrt(SquaredEuclideanDistance(a, b)); with a = [0,0], b = [2,0]
\* that is exp(-1) for bandwidth 1.0 and exp(-0.25) for bandwidth 2.0.
C2_OverloadsAgree ==
    \A th \in Threads :
        Done(th, "Evaluate") =>
            /\ ret[th] = EvaluateT(gamma, FSqrt(SquaredEuclideanDistance(call[th].a, call[th].b)))
            /\ (call[th].a = <<0, 0>> /\ call[th].b = <<Two, 0>> /\ bandwidth = One)
                  => ret[th] = Exp(FNeg(One))
            /\ (call[th].a = <<0, 0>> /\ call[th].b = <<Two, 0>> /\ bandwidth = Two)
                  => ret[th] = Exp(FNeg(One \div 4))

\* C2 witness: Evaluate([0,0], [2,0]) has returned on a bandwidth-2.0 instance.
C2_Witness ==
    /\ Done(MainThread, "Evaluate")
    /\ call[MainThread].a = <<0, 0>>
    /\ call[MainThread].b = <<Two, 0>>
    /\ bandwidth = Two
    /\ gamma = FNeg(One \div 8)
    /\ ret[MainThread] = Exp(FNeg(One \div 4))

\* C3: Evaluate(a, b) == Evaluate(b, a).
C3_Symmetric ==
    \A th \in Threads :
        Done(th, "Evaluate") => ret[th] = Evaluate(gamma, call[th].b, call[th].a)

\* C3 witness: Evaluate(a, b) has returned for two different vectors, with a
\* value strictly between 0 and 1.
C3_Witness ==
    /\ Done(MainThread, "Evaluate")
    /\ call[MainThread].a = <<FNeg(One), Two>>
    /\ call[MainThread].b = <<Two, 0>>
    /\ FLt(0, ret[MainThread])
    /\ FLt(ret[MainThread], One)

\* C4 (as stated): with bandwidth > 0, 0 < Evaluate(a, b) <= 1.
C4_StrictlyPositive ==
    \A th \in Threads :
        (Done(th, "Evaluate") /\ FLt(0, bandwidth)) =>
            FLt(0, ret[th]) /\ FLe(ret[th], One)

\* C4 (amended): with bandwidth > 0, a finite gamma and a finite distance,
\* 0 <= Evaluate(a, b) <= 1 (the value is 0 when the exponential underflows).
C4_UnitInterval ==
    \A th \in Threads :
        (/\ Done(th, "Evaluate")
         /\ FLt(0, bandwidth)
         /\ IsFinite(gamma)
         /\ IsFinite(Distance(call[th].a, call[th].b))) =>
            FLe(0, ret[th]) /\ FLe(ret[th], One)

\* C4 witness: bandwidth 0.25 (gamma = -8), distance 2: the result has
\* underflowed to 0.
C4_Witness ==
    /\ Done(MainThread, "Evaluate")
    /\ bandwidth = One \div 4
    /\ gamma = FNeg(8 * One)
    /\ call[MainThread].a = <<0>>
    /\ call[MainThread].b = <<Two>>
    /\ ret[MainThread] = 0

\* C5 (as stated): for every bandwidth > 0 and every vector a,
\* Evaluate(a, a) == 1.0.
C5_IdenticalIsOne ==
    \A th \in Threads :
        (Done(th, "Evaluate") /\ FLt(0, bandwidth) /\ call[th].a = call[th].b) =>
            ret[th] = One

\* C5 (amended): for every bandwidth > 0 whose gamma is finite and every
\* vector a, Evaluate(a, a) == 1.0; when gamma is -inf (the inverse square of
\* the bandwidth overflows) Evaluate(a, a) is NaN.
C5_IdenticalIsOneFiniteGamma ==
    \A th \in Threads :
        (Done(th, "Evaluate") /\ FLt(0, bandwidth) /\ call[th].a = call[th].b) =>
            /\ IsFinite(gamma) => ret[th] = One
            /\ gamma = -Inf => ret[th] = NaN

\* C5 witness: Evaluate(a, a) has returned 1.0 on an instance with a small
\* bandwidth whose gamma is still finite.
C5_Witness ==
    /\ Done(MainThread, "Evaluate")
    /\ call[MainThread].a = <<Two, FNeg(One)>>
    /\ call[MainThread].b = <<Two, FNeg(One)>>
    /\ FLt(0, bandwidth)
    /\ FLt(bandwidth, One \div 4)
    /\ IsFinite(gamma)
    /\ ret[MainThread] = One

\* C6 (as stated): for any bandwidth, zero and negative included,
\* Evaluate(t = 0) returns exactly 1.0.
C6_ZeroIsOne ==
    \A th \in Threads :
        (Done(th, "EvaluateT") /\ call[th].t = 0) => ret[th] = One

\* C6 (amended): Evaluate(t = 0) returns exactly 1.0 for every bandwidth whose
\* gamma is finite (negative bandwidths included); for bandwidth 0, and any
\* other bandwidth whose gamma is not finite, it returns NaN.
C6_ZeroIsOneFiniteGamma ==
    \A th \in Threads :
        (Done(th, "EvaluateT") /\ call[th].t = 0) =>
            /\ IsFinite(gamma) => ret[th] = One
            /\ ~IsFinite(gamma) => ret[th] = NaN
            /\ bandwidth = 0 => ret[th] = NaN

\* C6 witness: Evaluate(0) has returned 1.0 on an instance built from a
\* negative bandwidth.
C6_Witness ==
    /\ Done(MainThread, "EvaluateT")
    /\ call[MainThread].t = 0
    /\ ctor = "bandwidth"
    /\ bandwidth = FNeg(Two)
    /\ ret[MainThread] = One

\* C7 (as stated): for every bandwidth > 0 the kernel is strictly decreasing
\* in the distance: 0 <= t1 < t2 implies Evaluate(t1) > Evaluate(t2), and a
\* smaller distance between the vectors implies a greater Evaluate(a, b)
\* (Evaluate(a, b) is compared with Evaluate(c, d) for one-element c and d).
C7_StrictlyDecreasing ==
    \A th \in Threads :
        /\ (Done(th, "EvaluateT") /\ FLt(0, bandwidth) /\ FLe(0, call[th].t)) =>
              \A t2 \in Floats :
                  (FLt(call[th].t, t2) /\ IsFinite(t2)) =>
                      FLt(EvaluateT(gamma, t2), ret[th])
        /\ (Done(th, "Evaluate") /\ FLt(0, bandwidth)) =>
              LET dab == Distance(call[th].a, call[th].b)
              IN  \A c, d \in Vectors(1) :
                      FLt(dab, Distance(c, d)) => FLt(Evaluate(gamma, c, d), ret[th])

\* C7 (amended): for every bandwidth > 0 whose gamma is finite the kernel is
\* non-increasing in the distance: finite t1 < t2 implies
\* Evaluate(t1) >= Evaluate(t2), and a smaller finite distance between the
\* vectors implies an Evaluate(a, b) that is not smaller.
C7_NonIncreasing ==
    \A th \in Threads :
        /\ (Done(th, "EvaluateT") /\ FLt(0, bandwidth) /\ IsFinite(gamma)
                /\ IsFinite(call[th].t)) =>
              \A t2 \in Floats :
                  (FLt(call[th].t, t2) /\ IsFinite(t2)) =>
                      FLe(EvaluateT(gamma, t2), ret[th])
        /\ (Done(th, "Evaluate") /\ FLt(0, bandwidth) /\ IsFinite(gamma)) =>
              LET dab == Distance(call[th].a, call[th].b)
              IN  \A c, d \in Vectors(1) :
                      (FLt(dab, Distance(c, d)) /\ IsFinite(Distance(c, d))) =>
                          FLe(Evaluate(gamma, c, d), ret[th])

\* C7 witness: on the default instance Evaluate(0.25) has returned a value
\* that Evaluate(2.0) is smaller than and Evaluate(0.3125) is equal to.
C7_Witness ==
    /\ Done(MainThread, "EvaluateT")
    /\ ctor = "default"
    /\ call[MainThread].t = One \div 4
    /\ FLt(EvaluateT(gamma, Two), ret[MainThread])
    /\ EvaluateT(gamma, One \div 4 + One \div 16) = ret[MainThread]

\* C8: no step of Evaluate(a, b), Evaluate(t), Bandwidth() or Gamma() changes
\* bandwidth or gamma, nor the arguments of a call in progress.
C8_Immutable ==
    [][/\ bandwidth' = bandwidth
       /\ gamma' = gamma
       /\ \A th \in Threads :
              pc[th] \in {"called", "loaded"} => call'[th] = call[th]]_vars

\* C8 witness: an Evaluate(a, b) call and its return have happened on an
\* instance built from bandwidth 2.0, whose members are as constructed.
C8_Witness ==
    /\ Done(MainThread, "Evaluate")
    /\ call[MainThread].a = <<Two, Two>>
    /\ call[MainThread].b = <<FNeg(One), 0>>
    /\ ctor = "bandwidth"
    /\ bandwidth = Two
    /\ gamma = FNeg(One \div 8)

\* The value a call returns when it runs alone on the instance.
Alone(c) ==
    CASE c.op = "Evaluate" -> Exp(FMul(gamma, Distance(c.a, c.b)))
      [] c.op = "EvaluateT" -> Exp(FMul(gamma, c.t))
      [] c.op = "Bandwidth" -> bandwidth
      [] c.op = "Gamma" -> gamma

\* C9: under every interleaving of concurrent calls on one shared instance,
\* no step writes bandwidth or gamma and every completed call has returned
\* the value it returns when run alone with the same arguments.
C9_ConcurrentSafe ==
    /\ [](\A th \in Threads : pc[th] = "done" => ret[th] = Alone(call[th]))
    /\ [][bandwidth' = bandwidth /\ gamma' = gamma]_vars

\* C9 witness: thread 1 has returned from Evaluate([0,0], [2,0]) while
\* thread 2 is inside Evaluate(2.0), after loading gamma.
C9_Witness ==
    /\ Done(1, "Evaluate")
    /\ call[1].a = <<0, 0>>
    /\ call[1].b = <<Two, 0>>
    /\ bandwidth = Two
    /\ ret[1] = Exp(FNeg(One \div 4))
    /\ pc[2] = "loaded"
    /\ call[2].op = "EvaluateT"
    /\ call[2].t = Two

\* C10 (as stated): a zero or negative bandwidth is accepted and gives a gamma
\* that is infinite or positive (-inf for bandwidth 0), and Evaluate then
\* returns 0, infinity or NaN.
C10_DegenerateGamma ==
    (ctor = "bandwidth" /\ FLe(bandwidth, 0)) =>
        /\ Mag(gamma) = Inf \/ FLt(0, gamma)
        /\ bandwidth = 0 => gamma = -Inf
        /\ \A th \in Threads :
               (Done(th, "Evaluate") \/ Done(th, "EvaluateT")) =>
                   ret[th] \in {0, Inf, NaN}

\* C10 (amended): a zero or negative bandwidth is accepted; bandwidth 0 gives
\* gamma = -inf, with which Evaluate returns 0, infinity or NaN; a negative
\* bandwidth gives the gamma of its absolute value, never a positive one, and
\* Evaluate(a, b) then returns what it returns for the positive bandwidth.
C10_DegenerateBandwidth ==
    /\ (ctor = "bandwidth" /\ bandwidth = 0) =>
          /\ gamma = -Inf
          /\ \A th \in Threads :
                 (Done(th, "Evaluate") \/ Done(th, "EvaluateT")) =>
                     ret[th] \in {0, Inf, NaN}
    /\ (ctor = "bandwidth" /\ FLt(bandwidth, 0)) =>
          /\ gamma = BandwidthKernel(FNeg(bandwidth)).gamma
          /\ FLe(gamma, 0)
          /\ \A th \in Threads :
                 Done(th, "Evaluate") =>
                     ret[th] = Evaluate(BandwidthKernel(FNeg(bandwidth)).gamma,
                                        call[th].a, call[th].b)

\* C10 witness: an instance built from bandwidth -2.0 has gamma -0.125 and its
\* Evaluate([0,0], [2,0]) has returned exp(-0.25), an ordinary value.
C10_Witness ==
    /\ ctor = "bandwidth"
    /\ bandwidth = FNeg(Two)
    /\ gamma = FNeg(One \div 8)
    /\ Done(MainThread, "Evaluate")
    /\ call[MainThread].a = <<0, 0>>
    /\ call[MainThread].b = <<Two, 0>>
    /\ ret[MainThread] = Exp(FNeg(One \div 4))
    /\ ret[MainThread] \notin {0, Inf, NaN}
====
